---- MODULE Spec2Model ----
(***************************************************************************)
(* OCPP 1.6 WebSocket server (src/unnamed/part_000): the station registry, *)
(* the active-session map, the completed-session list, the two liveness    *)
(* sweeps and the per-connection message handler, as one state machine.    *)
(*                                                                         *)
(* Encoding of JavaScript values:                                          *)
(*   - Date.now() is an integer number of milliseconds; an ISO-8601 string *)
(*     made by toISOString() is the record [iso |-> ms] and new Date(iso)  *)
(*     reads the milliseconds back (toISOString keeps millisecond          *)
(*     precision);                                                         *)
(*   - a Map is a sequence of <<key, value>> pairs in insertion order      *)
(*     (Map iteration order), set() on a present key keeps its position;   *)
(*   - a key of activeSessions is a string: Date.now().toString() is       *)
(*     [auto |-> FALSE, t |-> ms] and `auto-${Date.now()}` is              *)
(*     [auto |-> TRUE, t |-> ms];                                          *)
(*   - a session object is a function from its property names to values,   *)
(*     so an object has exactly the properties the code gave it;           *)
(*   - energy_kwh is counted in units of 0.00001 kWh (0.01 Wh), the        *)
(*     resolution of toFixed(5): the number is [kwh |-> units] and the     *)
(*     string toFixed(5) makes of it is [fixed5 |-> units];                *)
(*   - a numeric property that is undefined holds Undefined.               *)
(***************************************************************************)
EXTENDS Integers, Sequences, FiniteSets, TLC

\* ---------------------------------------------------------------- bounds
\* Ghost-sweep periods the clock runs through in the sweep specification.
MaxSweepPeriods == 14
\* Milliseconds the clock may advance in 1 ms steps after each period start.
MaxMsOffset == 1
\* Ghost-sweep periods during which the station of the sweep specification
\* sends CALLs before it falls silent.
TalkPeriods == 2
\* Sessions ever held (active plus completed) before StartTransaction and
\* auto-recovery stop being offered.
MaxSessions == 2
\* Sessions the ring specification opens, one per millisecond.
MaxRing == 1001
\* Events logged in the log specification.
MaxLogged == 52
\* Sampled values of one MeterValues frame in the parse specification.
MaxSamples == 2

\* ------------------------------------------------------ program constants
CALL == 2
CALLRESULT == 3
CALLERROR == 4
HeartbeatSweepPeriod == 10000
GhostSweepPeriod == 5000
HeartbeatTimeoutS == 60
ZeroPowerTimeoutS == 30
MsPerMinute == 60000
LogCap == 50
BootInterval == 300

Undefined == 0 - 1
\* Date.now() when the process starts (any positive instant).
StartTime == 1

Stations == {"CP1", "CP2"}
\* The WebSocket objects the server can be handed, each with the station id
\* of its URL (the closure variable stationId).
Conns == {1, 2, 3}
ConnStation(c) == IF c = 3 THEN "CP2" ELSE "CP1"
\* MessageIds of a station that waits for each reply before its next CALL,
\* and of one that sends a second CALL while the first is unanswered.
OneAtATime == {"m1"}
Pipelined == {"m1", "m2"}

\* ------------------------------------------------------------ JS helpers
\* Map (sequence of <<key, value>> in insertion order).
MapHas(m, k) == \E i \in DOMAIN m : m[i][1] = k
MapIndex(m, k) == CHOOSE i \in DOMAIN m : m[i][1] = k
MapGet(m, k) == m[MapIndex(m, k)][2]
MapSet(m, k, v) ==
  IF MapHas(m, k) THEN [m EXCEPT ![MapIndex(m, k)] = <<k, v>>]
  ELSE Append(m, <<k, v>>)
MapDelete(m, k) == SelectSeq(m, LAMBDA e : e[1] # k)
MapKeys(m) == {m[i][1] : i \in DOMAIN m}

\* Plain object used as a dictionary (function from keys to values).
ObjHas(o, k) == k \in DOMAIN o
ObjSet(o, k, v) == (k :> v) @@ o
ObjDelete(o, k) == [x \in (DOMAIN o) \ {k} |-> o[x]]

Reverse(s) == [i \in 1..Len(s) |-> s[Len(s) + 1 - i]]
Min(a, b) == IF a <= b THEN a ELSE b

\* new Date().toISOString() and new Date(isoString).
ToISOString(ms) == [iso |-> ms]
DateParse(isoString) == isoString.iso
\* DurationMinutes with Math.round in place of Math.floor.
DurationMinutesRounded(endIso, startIso) ==
  (DateParse(endIso) - DateParse(startIso) + (MsPerMinute \div 2)) \div MsPerMinute

\* Math.floor((end - start) / 60000) for end >= start.
DurationMinutes(endIso, startIso) ==
  (DateParse(endIso) - DateParse(startIso)) \div MsPerMinute

\* `${stationId}-${connectorId}`
PortKey(stationId, connectorId) == <<stationId, connectorId>>
\* Date.now().toString() and `auto-${Date.now()}`
TxKey(ms) == [auto |-> FALSE, t |-> ms]
AutoTxKey(ms) == [auto |-> TRUE, t |-> ms]

\* ------------------------------------------------------------------ state
VARIABLES
  now,                 \* Date.now()
  hbDue,               \* next firing time of the heartbeat setInterval
  ghostDue,            \* next firing time of the ghost-session setInterval
  bridgeUrl,           \* whether BRIDGE_URL is configured
  sockets,             \* readyState of each WebSocket
  connectedDevices,    \* Map stationId -> device record
  deviceLastHeartbeat, \* Map stationId -> Date.now() of the last heartbeat
  activeSessions,      \* Map transaction id -> session object
  completedSessions,   \* array, newest first
  portLastPowerCheck,  \* Map port key -> Date.now() when 0 W was first seen
  pending,             \* per socket: handlers suspended in await, by arrival
  outbox,              \* per socket: frames sent, not yet read by the station
  unacked,             \* per socket: ids of the station's unanswered CALLs
  commandResponse,     \* the last HTTP response of POST /command
  activityLog          \* array of {timestamp, message}, newest first

timerVars == <<now, hbDue, ghostDue>>
storeVars == <<connectedDevices, deviceLastHeartbeat, activeSessions,
               completedSessions, portLastPowerCheck>>
wireVars == <<pending, outbox, unacked>>
vars == <<now, hbDue, ghostDue, bridgeUrl, sockets, connectedDevices,
          deviceLastHeartbeat, activeSessions, completedSessions,
          portLastPowerCheck, pending, outbox, unacked, commandResponse,
          activityLog>>

\* No POST /command has been answered yet.
NoResponse == [none |-> TRUE]

Init ==
  /\ now = StartTime
  /\ hbDue = StartTime + HeartbeatSweepPeriod
  /\ ghostDue = StartTime + GhostSweepPeriod
  /\ bridgeUrl \in BOOLEAN
  /\ sockets = [c \in Conns |-> "CONNECTING"]
  /\ connectedDevices = <<>>
  /\ deviceLastHeartbeat = <<>>
  /\ activeSessions = <<>>
  /\ completedSessions = <<>>
  /\ portLastPowerCheck = <<>>
  /\ pending = [c \in Conns |-> <<>>]
  /\ outbox = [c \in Conns |-> <<>>]
  /\ unacked = [c \in Conns |-> <<>>]
  /\ commandResponse = NoResponse
  /\ activityLog = <<>>

\* The process started without BRIDGE_URL in its environment.
InitNoBridge == Init /\ bridgeUrl = FALSE

\* ----------------------------------------------------------- finalization
\* session.end_time = ...; session.duration_minutes = ...; session.status =
\* 'completed'; then { ...session, transaction_id: txId }.
CompletedCopy(txId, session, ms) ==
  LET endIso == ToISOString(ms)
      s1 == ObjSet(session, "end_time", endIso)
      s2 == ObjSet(s1, "duration_minutes",
                   DurationMinutes(endIso, session.start_time))
      s3 == ObjSet(s2, "status", "completed")
  IN ObjSet(s3, "transaction_id", txId)

\* Unshift as an assignment to index 0: the head entry is replaced.
UnshiftOverHead(list, entry) ==
  IF list = <<>> THEN <<entry>> ELSE <<entry>> \o Tail(list)

\* completedSessions.unshift(entry)
Unshift(list, entry) == <<entry>> \o list

\* OfStation without the session.station_id === stationId test.
OfAnyStation(entry, stationId) == TRUE

\* The loop `for (const [txId, session] of activeSessions.entries())
\* if (session.station_id === stationId) { ...finalize... }` shared by the
\* heartbeat sweep and onclose. The matching entries are visited in map
\* order; each is unshifted (so the last one visited ends up first), deleted
\* from the map, and its port marker deleted.
OfStation(entry, stationId) == entry[2].station_id = stationId

FinalizeStation(stationId, act, comp, plpc, ms) ==
  LET hit == SelectSeq(act, LAMBDA e : OfStation(e, stationId))
      copies == [i \in 1..Len(hit) |-> CompletedCopy(hit[i][1], hit[i][2], ms)]
      ports == {PortKey(stationId, hit[i][2].connector_id) : i \in 1..Len(hit)}
  IN [act |-> SelectSeq(act, LAMBDA e : ~OfStation(e, stationId)),
      comp |-> Reverse(copies) \o comp,
      plpc |-> [k \in (DOMAIN plpc) \ ports |-> plpc[k]]]

\* ------------------------------------------------------------------ clock
\* Time passes in 1 ms steps (at most MaxMsOffset of them after each period
\* start, so that events fall in the same or in different milliseconds) or
\* runs on to the next timer. A timer callback runs when its time has come;
\* the clock does not run on to the next timer while one is overdue.
PeriodsElapsed == (now - StartTime) \div GhostSweepPeriod

TickMs(maxOffset) ==
  /\ (now - StartTime) % GhostSweepPeriod < maxOffset
  /\ now' = now + 1
  /\ UNCHANGED <<hbDue, ghostDue, bridgeUrl, activityLog, commandResponse, sockets, storeVars, wireVars>>

TickToTimer(maxPeriods) ==
  /\ now < ghostDue
  /\ now < hbDue
  /\ PeriodsElapsed < maxPeriods
  /\ now' = Min(ghostDue, hbDue)
  /\ UNCHANGED <<hbDue, ghostDue, bridgeUrl, activityLog, commandResponse, sockets, storeVars, wireVars>>

\* ------------------------------------------------------- heartbeat sweep
\* secondsSinceHeartbeat > 60, with secondsSinceHeartbeat = (now - last) / 1000
\* HeartbeatExpired with >= 60 in place of > 60.
HeartbeatExpiredAtSixty(ms, lastHeartbeat) ==
  ms - lastHeartbeat >= HeartbeatTimeoutS * 1000

HeartbeatExpired(ms, lastHeartbeat) ==
  ms - lastHeartbeat > HeartbeatTimeoutS * 1000

RECURSIVE HeartbeatSweepFrom(_, _, _)
HeartbeatSweepFrom(i, hb, st) ==
  IF i > Len(hb) THEN st
  ELSE LET stationId == hb[i][1]
           lastHeartbeat == hb[i][2]
       IN IF /\ HeartbeatExpired(st.ms, lastHeartbeat)
             /\ ObjHas(st.dev, stationId)
             /\ st.dev[stationId].status # "offline"
          THEN LET f == FinalizeStation(stationId, st.act, st.comp, st.plpc, st.ms)
               IN HeartbeatSweepFrom(i + 1, hb,
                    [dev |-> [st.dev EXCEPT ![stationId].status = "offline"],
                     act |-> f.act, comp |-> f.comp, plpc |-> f.plpc,
                     ms |-> st.ms])
          ELSE HeartbeatSweepFrom(i + 1, hb, st)

HeartbeatSweep ==
  /\ now >= hbDue
  /\ hbDue' = hbDue + HeartbeatSweepPeriod
  /\ LET r == HeartbeatSweepFrom(1, deviceLastHeartbeat,
                [dev |-> connectedDevices, act |-> activeSessions,
                 comp |-> completedSessions, plpc |-> portLastPowerCheck,
                 ms |-> now])
     IN /\ connectedDevices' = r.dev
        /\ activeSessions' = r.act
        /\ completedSessions' = r.comp
        /\ portLastPowerCheck' = r.plpc
  /\ UNCHANGED <<now, ghostDue, bridgeUrl, activityLog, commandResponse, sockets, deviceLastHeartbeat, wireVars>>

\* ----------------------------------------------------- ghost-session sweep
\* secondsAtZero > 30, with secondsAtZero = (now - lastCheck) / 1000
ZeroPowerExpired(ms, lastCheck) == ms - lastCheck > ZeroPowerTimeoutS * 1000

RECURSIVE GhostSweepFrom(_, _, _)
GhostSweepFrom(i, entries, st) ==
  IF i > Len(entries) THEN st
  ELSE
    LET txId == entries[i][1]
        session == entries[i][2]
        power == session.current_power_w
        portKey == PortKey(session.station_id, session.connector_id)
        \* portLastPowerCheck.get(portKey) || now
        lastCheck == IF ObjHas(st.plpc, portKey) /\ st.plpc[portKey] # 0
                     THEN st.plpc[portKey] ELSE st.ms
    IN IF power = 0
       THEN IF ZeroPowerExpired(st.ms, lastCheck)
            THEN GhostSweepFrom(i + 1, entries,
                   [act |-> MapDelete(st.act, txId),
                    comp |-> Unshift(st.comp, CompletedCopy(txId, session, st.ms)),
                    plpc |-> ObjDelete(st.plpc, portKey),
                    ms |-> st.ms])
            ELSE IF ~ObjHas(st.plpc, portKey)
                 THEN GhostSweepFrom(i + 1, entries,
                        [st EXCEPT !.plpc = ObjSet(st.plpc, portKey, st.ms)])
                 ELSE GhostSweepFrom(i + 1, entries, st)
       ELSE GhostSweepFrom(i + 1, entries,
              [st EXCEPT !.plpc = ObjDelete(st.plpc, portKey)])

GhostSweep ==
  /\ now >= ghostDue
  /\ ghostDue' = ghostDue + GhostSweepPeriod
  /\ LET r == GhostSweepFrom(1, activeSessions,
                [act |-> activeSessions, comp |-> completedSessions,
                 plpc |-> portLastPowerCheck, ms |-> now])
     IN /\ activeSessions' = r.act
        /\ completedSessions' = r.comp
        /\ portLastPowerCheck' = r.plpc
  /\ UNCHANGED <<now, hbDue, bridgeUrl, activityLog, commandResponse, sockets, connectedDevices,
                 deviceLastHeartbeat, wireVars>>

\* ---------------------------------------------------------- socket events
\* socket.onopen
OnOpen(c) ==
  /\ sockets[c] = "CONNECTING"
  /\ sockets' = [sockets EXCEPT ![c] = "OPEN"]
  /\ connectedDevices' =
       ObjSet(connectedDevices, ConnStation(c),
              [station_id |-> ConnStation(c), socket |-> c,
               connected_at |-> ToISOString(now), status |-> "online",
               vendor |-> "Unknown", model |-> "Unknown",
               firmware |-> "Unknown"])
  /\ deviceLastHeartbeat' = MapSet(deviceLastHeartbeat, ConnStation(c), now)
  /\ UNCHANGED <<timerVars, bridgeUrl, activityLog, commandResponse, activeSessions, completedSessions,
                 portLastPowerCheck, wireVars>>

\* The connection starts to go down: readyState leaves OPEN (CLOSING) before
\* the close event is dispatched. Handlers suspended in an await may resume
\* in between; no further frame is delivered.
BeginClose(c) ==
  /\ sockets[c] = "OPEN"
  /\ sockets' = [sockets EXCEPT ![c] = "CLOSING"]
  /\ UNCHANGED <<timerVars, bridgeUrl, activityLog, commandResponse, storeVars,
                 wireVars>>

\* socket.onclose (the transport closed; readyState is CLOSED when it runs).
\* Its callBridge calls are not awaited and touch no local state.
OnClose(c) ==
  /\ sockets[c] \in {"OPEN", "CLOSING"}
  /\ sockets' = [sockets EXCEPT ![c] = "CLOSED"]
  /\ connectedDevices' =
       IF ObjHas(connectedDevices, ConnStation(c))
       THEN [connectedDevices EXCEPT ![ConnStation(c)].status = "offline"]
       ELSE connectedDevices
  /\ deviceLastHeartbeat' = MapDelete(deviceLastHeartbeat, ConnStation(c))
  /\ LET f == FinalizeStation(ConnStation(c), activeSessions,
                              completedSessions, portLastPowerCheck, now)
     IN /\ activeSessions' = f.act
        /\ completedSessions' = f.comp
        /\ portLastPowerCheck' = f.plpc
  \* The station's end of the connection is gone with what was in flight.
  /\ outbox' = [outbox EXCEPT ![c] = <<>>]
  /\ unacked' = [unacked EXCEPT ![c] = <<>>]
  /\ UNCHANGED <<timerVars, bridgeUrl, activityLog, commandResponse, pending>>

\* ------------------------------------------------------- parseMeterValues
\* A sampled value is an object with optional measurand, value and phase.
\* sample.value is a string: <<"num", n>> is the decimal rendering of n,
\* <<"lead", n>> is that rendering followed by characters that belong to no
\* number ("7W": parseFloat reads the leading 7) and <<"text">> is a string
\* parseFloat reads no number from (NaN, as for an absent value).
\* parseFloat(sample.value) || 0
ParseFloatOr0(sample) ==
  IF ObjHas(sample, "value") /\ sample.value[1] \in {"num", "lead"}
  THEN sample.value[2]
  ELSE 0

\* sample.measurand || ''
Measurand(sample) == IF ObjHas(sample, "measurand") THEN sample.measurand ELSE ""
PhaseIsL1N(sample) == ObjHas(sample, "phase") /\ sample.phase = "L1-N"

ZeroReading ==
  [power |-> 0, energy |-> 0, voltage |-> 0, current |-> 0, temperature |-> 0]

\* ApplySample without the sample.phase === 'L1-N' test on Voltage.
ApplySampleAnyPhase(acc, sample) ==
  LET measurand == Measurand(sample)
      value == ParseFloatOr0(sample)
      a1 == IF measurand = "Power.Active.Import"
            THEN [acc EXCEPT !.power = value] ELSE acc
      a2 == IF measurand = "Energy.Active.Import.Register"
            THEN [a1 EXCEPT !.energy = value * 100] ELSE a1
      a3 == IF measurand = "Voltage"
            THEN [a2 EXCEPT !.voltage = value] ELSE a2
      a4 == IF measurand = "Current.Import" /\ PhaseIsL1N(sample)
            THEN [a3 EXCEPT !.current = value] ELSE a3
  IN IF measurand = "Temperature"
     THEN [a4 EXCEPT !.temperature = value] ELSE a4

\* One sampled value applied to the running result; value / 1000 kWh is
\* value * 100 units of 0.00001 kWh.
ApplySample(acc, sample) ==
  LET measurand == Measurand(sample)
      value == ParseFloatOr0(sample)
      a1 == IF measurand = "Power.Active.Import"
            THEN [acc EXCEPT !.power = value] ELSE acc
      a2 == IF measurand = "Energy.Active.Import.Register"
            THEN [a1 EXCEPT !.energy = value * 100] ELSE a1
      a3 == IF measurand = "Voltage" /\ PhaseIsL1N(sample)
            THEN [a2 EXCEPT !.voltage = value] ELSE a2
      a4 == IF measurand = "Current.Import" /\ PhaseIsL1N(sample)
            THEN [a3 EXCEPT !.current = value] ELSE a3
  IN IF measurand = "Temperature"
     THEN [a4 EXCEPT !.temperature = value] ELSE a4

RECURSIVE ParseSamples(_, _, _)
ParseSamples(samples, i, acc) ==
  IF i > Len(samples) THEN acc
  ELSE ParseSamples(samples, i + 1, ApplySample(acc, samples[i]))

\* A meter without a sampledValue array is skipped.
RECURSIVE ParseMeters(_, _, _)
ParseMeters(meterValue, i, acc) ==
  IF i > Len(meterValue) THEN acc
  ELSE IF ~ObjHas(meterValue[i], "sampledValue")
       THEN ParseMeters(meterValue, i + 1, acc)
       ELSE ParseMeters(meterValue, i + 1,
                        ParseSamples(meterValue[i].sampledValue, 1, acc))

\* payload.meterValue is absent (no such property) or an array.
parseMeterValues(payload) ==
  IF ~ObjHas(payload, "meterValue") THEN ZeroReading
  ELSE ParseMeters(payload.meterValue, 1, ZeroReading)

\* -------------------------------------------------------- socket.onmessage
\* The handler's result: whether it threw into the catch block (no reply),
\* whether it has a reply to send, whether it is suspended in an await that
\* lasts beyond the current task before sending, the response payload, and
\* the stores as the synchronous part left them.
Threw(st) ==
  [threw |-> TRUE, reply |-> FALSE, awaits |-> FALSE, response |-> <<>>, st |-> st]
Replies(st, response, awaits) ==
  [threw |-> FALSE, reply |-> TRUE, awaits |-> awaits, response |-> response,
   st |-> st]
NoReply(st) ==
  [threw |-> FALSE, reply |-> FALSE, awaits |-> FALSE, response |-> <<>>, st |-> st]

HasPayload(frame) == ObjHas(frame, "payload")
\* payload[k] || fallback, for a string property
StringOr(payload, k, fallback) ==
  IF ObjHas(payload, k) /\ payload[k] # "" THEN payload[k] ELSE fallback
\* payload[k], for a numeric property
NumberProp(payload, k) == IF ObjHas(payload, k) THEN payload[k] ELSE Undefined
\* payload.transactionId?.toString(); NoTxId stands for undefined, which is
\* the key of no entry.
NoTxId == [auto |-> FALSE, t |-> Undefined]
TransactionIdString(payload) ==
  IF ObjHas(payload, "transactionId") THEN payload.transactionId ELSE NoTxId
\* (x).toFixed(5): a string holding the number with five decimals.
ToFixed5(units) == [fixed5 |-> units]
\* energy_kwh holding a number.
Kwh(units) == [kwh |-> units]

Accepted == [status |-> "Accepted"]

\* case 'BootNotification'
HandleBootNotification(stationId, frame, st, ms, bridge) ==
  LET response == [status |-> "Accepted", currentTime |-> ToISOString(ms),
                   interval |-> BootInterval]
  IN IF ObjHas(st.dev, stationId) /\ ~HasPayload(frame)
     THEN Threw(st)
     ELSE
       LET dev1 ==
             IF ObjHas(st.dev, stationId)
             THEN [st.dev EXCEPT
                     ![stationId].vendor =
                        StringOr(frame.payload, "chargePointVendor", "Unknown"),
                     ![stationId].model =
                        StringOr(frame.payload, "chargePointModel", "Unknown"),
                     ![stationId].firmware =
                        StringOr(frame.payload, "firmwareVersion", "Unknown"),
                     ![stationId].status = "online"]
             ELSE st.dev
       IN Replies([st EXCEPT !.dev = dev1,
                              !.hb = MapSet(st.hb, stationId, ms)],
                  response, bridge)

\* HandleHeartbeat that also stamps the station's active sessions with the
\* time of the heartbeat.
HandleHeartbeatTouchesSessions(stationId, frame, st, ms, bridge) ==
  LET dev1 == IF ObjHas(st.dev, stationId)
              THEN [st.dev EXCEPT ![stationId].status = "online"]
              ELSE st.dev
      act1 == [i \in DOMAIN st.act |->
                 IF st.act[i][2].station_id = stationId
                 THEN <<st.act[i][1], ObjSet(st.act[i][2], "last_seen", ms)>>
                 ELSE st.act[i]]
  IN Replies([st EXCEPT !.hb = MapSet(st.hb, stationId, ms), !.dev = dev1,
                        !.act = act1],
             [currentTime |-> ToISOString(ms)], bridge)

\* case 'Heartbeat'
HandleHeartbeat(stationId, frame, st, ms, bridge) ==
  LET dev1 == IF ObjHas(st.dev, stationId)
              THEN [st.dev EXCEPT ![stationId].status = "online"]
              ELSE st.dev
  IN Replies([st EXCEPT !.hb = MapSet(st.hb, stationId, ms), !.dev = dev1],
             [currentTime |-> ToISOString(ms)], bridge)

\* case 'StatusNotification': payload.status is read for the bridge call.
HandleStatusNotification(stationId, frame, st, ms, bridge) ==
  IF ~HasPayload(frame) THEN Threw(st)
  ELSE Replies(st, <<>>, bridge)

\* HandleStartTransaction that leaves the session to the bridge when one is
\* configured: activeSessions.set only when callBridge returned null at once.
HandleStartTransactionViaBridge(stationId, frame, st, ms, bridge) ==
  IF ~HasPayload(frame) THEN Threw(st)
  ELSE
    LET txId == ms
        session == [station_id |-> stationId,
                    connector_id |-> NumberProp(frame.payload, "connectorId"),
                    start_time |-> ToISOString(ms),
                    energy_kwh |-> Kwh(0),
                    current_power_w |-> 0]
    IN IF bridge
       THEN Replies(st, [transactionId |-> txId, idTagInfo |-> Accepted], TRUE)
       ELSE Replies([st EXCEPT !.act = MapSet(st.act, TxKey(txId), session)],
                    [transactionId |-> txId, idTagInfo |-> Accepted], FALSE)

\* case 'StartTransaction'
HandleStartTransaction(stationId, frame, st, ms, bridge) ==
  IF ~HasPayload(frame) THEN Threw(st)
  ELSE
    LET txId == ms
        session == [station_id |-> stationId,
                    connector_id |-> NumberProp(frame.payload, "connectorId"),
                    start_time |-> ToISOString(ms),
                    energy_kwh |-> Kwh(0),
                    current_power_w |-> 0]
    IN Replies([st EXCEPT !.act = MapSet(st.act, TxKey(txId), session)],
               [transactionId |-> txId, idTagInfo |-> Accepted], bridge)

\* HandleStopTransaction without the if (session) test: the first use of the
\* undefined session throws.
HandleStopTransactionUnguarded(stationId, frame, st, ms, bridge) ==
  IF ~HasPayload(frame) THEN Threw(st)
  ELSE
    LET key == TransactionIdString(frame.payload)
        response == [idTagInfo |-> Accepted]
    IN IF ~MapHas(st.act, key) THEN Threw(st)
       ELSE
         LET session == MapGet(st.act, key)
             meterStop == NumberProp(frame.payload, "meterStop")
             s1 == IF meterStop # Undefined /\ meterStop # 0
                   THEN ObjSet(session, "energy_kwh", ToFixed5(meterStop * 100))
                   ELSE session
         IN Replies(
              [st EXCEPT
                 !.comp = Unshift(st.comp, CompletedCopy(key, s1, ms)),
                 !.plpc = ObjDelete(st.plpc,
                                    PortKey(stationId, session.connector_id)),
                 !.act = MapDelete(st.act, key)],
              response, bridge)

\* case 'StopTransaction'
HandleStopTransaction(stationId, frame, st, ms, bridge) ==
  IF ~HasPayload(frame) THEN Threw(st)
  ELSE
    LET key == TransactionIdString(frame.payload)
        response == [idTagInfo |-> Accepted]
    IN IF ~MapHas(st.act, key) THEN Replies(st, response, FALSE)
       ELSE
         LET session == MapGet(st.act, key)
             meterStop == NumberProp(frame.payload, "meterStop")
             \* if (payload.meterStop) ...: 0 and undefined are falsy
             s1 == IF meterStop # Undefined /\ meterStop # 0
                   THEN ObjSet(session, "energy_kwh", ToFixed5(meterStop * 100))
                   ELSE session
         IN Replies(
              [st EXCEPT
                 !.comp = Unshift(st.comp, CompletedCopy(key, s1, ms)),
                 !.plpc = ObjDelete(st.plpc,
                                    PortKey(stationId, session.connector_id)),
                 !.act = MapDelete(st.act, key)],
              response, bridge)

\* The lookup loop of MeterValues: the first entry, in map order, whose
\* connector_id is the frame's connectorId or whose key is its transactionId.
MeterMatches(entry, connectorId, transactionId) ==
  entry[2].connector_id = connectorId \/ entry[1] = transactionId

SessionFoundIndex(act, connectorId, transactionId) ==
  LET hits == {i \in DOMAIN act : MeterMatches(act[i], connectorId, transactionId)}
  IN IF hits = {} THEN 0 ELSE CHOOSE i \in hits : \A j \in hits : i <= j

\* The five assignments sessionFound.x = parsed.x
ApplyReading(session, r) ==
  ObjSet(ObjSet(ObjSet(ObjSet(ObjSet(session,
    "current_power_w", r.power),
    "energy_kwh", Kwh(r.energy)),
    "voltage_v", r.voltage),
    "current_a", r.current),
    "temperature_c", r.temperature)

\* case 'MeterValues'. payload.meterValue is truthy when the property is
\* present (an array, empty or not).
HandleMeterValues(stationId, frame, st, ms, bridge) ==
  IF ~HasPayload(frame) THEN Threw(st)
  ELSE
    LET payload == frame.payload
        connectorId == NumberProp(payload, "connectorId")
        transactionId == TransactionIdString(payload)
        hasMeterValue == ObjHas(payload, "meterValue")
        found == SessionFoundIndex(st.act, connectorId, transactionId)
        autoTxId == AutoTxKey(ms)
        autoSession == [station_id |-> stationId,
                        connector_id |-> connectorId,
                        start_time |-> ToISOString(ms),
                        energy_kwh |-> Kwh(0),
                        current_power_w |-> 0,
                        voltage_v |-> 0,
                        current_a |-> 0,
                        temperature_c |-> 0]
        recover == found = 0 /\ hasMeterValue
        act1 == IF recover THEN MapSet(st.act, autoTxId, autoSession) ELSE st.act
        key == IF recover THEN autoTxId
               ELSE IF found # 0 THEN st.act[found][1] ELSE NoTxId
        apply == (found # 0 \/ recover) /\ hasMeterValue
        act2 == IF apply
                THEN MapSet(act1, key,
                            ApplyReading(MapGet(act1, key), parseMeterValues(payload)))
                ELSE act1
    IN Replies([st EXCEPT !.act = act2], <<>>, apply /\ bridge)

\* HandleDefault without the default branch's response: nothing is sent.
HandleDefaultSilent(stationId, frame, st, ms, bridge) == NoReply(st)

\* default
HandleDefault(stationId, frame, st, ms, bridge) == Replies(st, <<>>, FALSE)

\* HandleFrame with a catch block that takes the connection for dead and
\* marks the station offline.
HandleFrameCatchMarksOffline(stationId, frame, st, ms, bridge) ==
  IF ~ObjHas(frame, "type")
  THEN Threw([st EXCEPT !.dev = [st.dev EXCEPT ![stationId].status = "offline"]])
  ELSE IF frame.type # CALL THEN NoReply(st)
  ELSE IF ~ObjHas(frame, "action")
       THEN HandleDefault(stationId, frame, st, ms, bridge)
  ELSE CASE frame.action = "BootNotification" ->
              HandleBootNotification(stationId, frame, st, ms, bridge)
         [] frame.action = "Heartbeat" ->
              HandleHeartbeat(stationId, frame, st, ms, bridge)
         [] frame.action = "StatusNotification" ->
              HandleStatusNotification(stationId, frame, st, ms, bridge)
         [] frame.action = "StartTransaction" ->
              HandleStartTransaction(stationId, frame, st, ms, bridge)
         [] frame.action = "StopTransaction" ->
              HandleStopTransaction(stationId, frame, st, ms, bridge)
         [] frame.action = "MeterValues" ->
              HandleMeterValues(stationId, frame, st, ms, bridge)
         [] OTHER -> HandleDefault(stationId, frame, st, ms, bridge)

\* The body of socket.onmessage up to its first await or its end. A frame is
\* an object; one without a type stands for data JSON.parse or the array
\* destructuring rejects.
HandleFrame(stationId, frame, st, ms, bridge) ==
  IF ~ObjHas(frame, "type") THEN Threw(st)
  ELSE IF frame.type # CALL THEN NoReply(st)
  ELSE IF ~ObjHas(frame, "action")
       THEN HandleDefault(stationId, frame, st, ms, bridge)
  ELSE CASE frame.action = "BootNotification" ->
              HandleBootNotification(stationId, frame, st, ms, bridge)
         [] frame.action = "Heartbeat" ->
              HandleHeartbeat(stationId, frame, st, ms, bridge)
         [] frame.action = "StatusNotification" ->
              HandleStatusNotification(stationId, frame, st, ms, bridge)
         [] frame.action = "StartTransaction" ->
              HandleStartTransaction(stationId, frame, st, ms, bridge)
         [] frame.action = "StopTransaction" ->
              HandleStopTransaction(stationId, frame, st, ms, bridge)
         [] frame.action = "MeterValues" ->
              HandleMeterValues(stationId, frame, st, ms, bridge)
         [] OTHER -> HandleDefault(stationId, frame, st, ms, bridge)

Store ==
  [dev |-> connectedDevices, hb |-> deviceLastHeartbeat, act |-> activeSessions,
   comp |-> completedSessions, plpc |-> portLastPowerCheck]

IsCall(frame) == ObjHas(frame, "type") /\ frame.type = CALL
SeqIds(q) == {q[i].id : i \in DOMAIN q}
CallResult(id, response) == [type |-> CALLRESULT, id |-> id, payload |-> response]

\* A frame arrives on an open socket and its handler runs to its first await
\* that outlasts the task (a bridge fetch) or to its end. With no BRIDGE_URL
\* callBridge returns at once and the reply is sent in the same task.
OnMessage(c, frame) ==
  /\ sockets[c] = "OPEN"
  /\ IsCall(frame) =>
       frame.id \notin {unacked[c][i] : i \in DOMAIN unacked[c]}
  /\ LET out == HandleFrame(ConnStation(c), frame, Store, now, bridgeUrl)
     IN /\ connectedDevices' = out.st.dev
        /\ deviceLastHeartbeat' = out.st.hb
        /\ activeSessions' = out.st.act
        /\ completedSessions' = out.st.comp
        /\ portLastPowerCheck' = out.st.plpc
        /\ pending' =
             IF out.reply /\ out.awaits
             THEN [pending EXCEPT ![c] =
                     Append(@, [id |-> frame.id, response |-> out.response])]
             ELSE pending
        /\ outbox' =
             IF out.reply /\ ~out.awaits
             THEN [outbox EXCEPT ![c] =
                     Append(@, CallResult(frame.id, out.response))]
             ELSE outbox
  /\ unacked' = IF IsCall(frame)
                THEN [unacked EXCEPT ![c] = Append(@, frame.id)]
                ELSE unacked
  /\ UNCHANGED <<timerVars, bridgeUrl, activityLog, commandResponse, sockets>>

\* ResumeHandler of a StartTransaction handler whose activeSessions.set
\* comes after its await callBridge.
ResumeHandlerSetsSession(c, i) ==
  /\ i \in DOMAIN pending[c]
  /\ pending' = [pending EXCEPT ![c] =
                   SubSeq(@, 1, i - 1) \o SubSeq(@, i + 1, Len(@))]
  /\ outbox' =
       IF sockets[c] = "OPEN"
       THEN [outbox EXCEPT ![c] =
               Append(@, CallResult(pending[c][i].id, pending[c][i].response))]
       ELSE outbox
  /\ activeSessions' =
       IF ObjHas(pending[c][i].response, "transactionId")
       THEN MapSet(activeSessions, TxKey(pending[c][i].response.transactionId),
                   [station_id |-> ConnStation(c), connector_id |-> 1,
                    start_time |-> ToISOString(now), energy_kwh |-> Kwh(0),
                    current_power_w |-> 0])
       ELSE activeSessions
  /\ UNCHANGED <<timerVars, bridgeUrl, activityLog, commandResponse, sockets,
                 connectedDevices, deviceLastHeartbeat, completedSessions,
                 portLastPowerCheck, unacked>>

\* ResumeHandler with the handler's deviceLastHeartbeat.set moved after its
\* await callBridge.
ResumeHandlerSetAfterAwait(c, i) ==
  /\ i \in DOMAIN pending[c]
  /\ pending' = [pending EXCEPT ![c] =
                   SubSeq(@, 1, i - 1) \o SubSeq(@, i + 1, Len(@))]
  /\ outbox' =
       IF sockets[c] = "OPEN"
       THEN [outbox EXCEPT ![c] =
               Append(@, CallResult(pending[c][i].id, pending[c][i].response))]
       ELSE outbox
  /\ deviceLastHeartbeat' = MapSet(deviceLastHeartbeat, ConnStation(c), now)
  /\ UNCHANGED <<timerVars, bridgeUrl, activityLog, commandResponse, sockets, connectedDevices,
                 activeSessions, completedSessions, portLastPowerCheck,
                 unacked>>

\* The bridge fetch of the i-th suspended handler of socket c settles (with
\* any outcome: callBridge catches them all) and the handler goes on to
\* socket.send, which throws into the catch block when the socket is closed.
ResumeHandler(c, i) ==
  /\ i \in DOMAIN pending[c]
  /\ pending' = [pending EXCEPT ![c] =
                   SubSeq(@, 1, i - 1) \o SubSeq(@, i + 1, Len(@))]
  /\ outbox' =
       IF sockets[c] = "OPEN"
       THEN [outbox EXCEPT ![c] =
               Append(@, CallResult(pending[c][i].id, pending[c][i].response))]
       ELSE outbox
  /\ UNCHANGED <<timerVars, bridgeUrl, activityLog, commandResponse, sockets, storeVars, unacked>>

\* ------------------------------------------------------------ the station
\* The station reads the oldest frame sent to it; a CALLRESULT answers the
\* CALL with its MessageId.
StationRead(c) ==
  /\ outbox[c] # <<>>
  /\ outbox' = [outbox EXCEPT ![c] = Tail(@)]
  /\ unacked' = [unacked EXCEPT ![c] =
                   SelectSeq(@, LAMBDA id : id # Head(outbox[c]).id)]
  /\ UNCHANGED <<timerVars, bridgeUrl, activityLog, commandResponse, sockets, storeVars, pending>>

\* The station stops waiting for its oldest CALL when no handler holds it and
\* no reply to it is on the way (its handler ended in the catch block).
StationGiveUp(c) ==
  /\ unacked[c] # <<>>
  /\ Head(unacked[c]) \notin SeqIds(pending[c]) \cup SeqIds(outbox[c])
  /\ unacked' = [unacked EXCEPT ![c] = Tail(@)]
  /\ UNCHANGED <<timerVars, bridgeUrl, activityLog, commandResponse, sockets, storeVars, pending, outbox>>

\* Frames a station sends.
Call(id, action, payload) ==
  [type |-> CALL, id |-> id, action |-> action, payload |-> payload]
CallWithoutPayload(id, action) == [type |-> CALL, id |-> id, action |-> action]

ConnectorIds == {1, 2}
Powers == {0, 1500}
MeterStops == {3600}
BootPayload ==
  [chargePointVendor |-> "ACME", chargePointModel |-> "X",
   firmwareVersion |-> "1.0"]
PowerSample(p) == [measurand |-> "Power.Active.Import", value |-> <<"num", p>>]
MeterValue(samples) == <<[timestamp |-> "t", sampledValue |-> samples]>>

\* Transaction ids a station can name: those the server has handed out.
KnownTxIds ==
  MapKeys(activeSessions)
    \cup {completedSessions[i].transaction_id : i \in DOMAIN completedSessions}

SessionsHeld == Len(activeSessions) + Len(completedSessions)

SendBootNotification(c, id) ==
  \/ OnMessage(c, Call(id, "BootNotification", BootPayload))
  \/ OnMessage(c, CallWithoutPayload(id, "BootNotification"))

SendHeartbeat(c, id) == OnMessage(c, CallWithoutPayload(id, "Heartbeat"))

SendStatusNotification(c, id) ==
  OnMessage(c, Call(id, "StatusNotification", [status |-> "Charging"]))

SendStartTransaction(c, id, connectors, limit) ==
  /\ SessionsHeld < limit
  /\ \E k \in connectors :
       OnMessage(c, Call(id, "StartTransaction", [connectorId |-> k]))

SendStopTransaction(c, id) ==
  \E tx \in KnownTxIds, m \in MeterStops :
    OnMessage(c, Call(id, "StopTransaction",
                      [transactionId |-> tx, meterStop |-> m]))

SendMeterValues(c, id, limit) ==
  \E k \in ConnectorIds, p \in Powers :
    LET payload == [connectorId |-> k,
                    meterValue |-> MeterValue(<<PowerSample(p)>>)]
    IN /\ (SessionFoundIndex(activeSessions, k, NoTxId) = 0
             => SessionsHeld < limit)
       /\ OnMessage(c, Call(id, "MeterValues", payload))

SendUnknownAction(c, id) == OnMessage(c, Call(id, "DataTransfer", <<>>))

\* Every station has read the replies sent to it.
RepliesRead == \A c \in Conns : outbox[c] = <<>>

\* ---------------------------------------------------------- specifications
\* Lifecycle: two stations, each on one socket, that wait for each reply and
\* read it at once; StartTransaction, MeterValues and StopTransaction in the
\* same or in different milliseconds; close.
LifecycleConns == {1, 3}

Next ==
  \/ RepliesRead /\ TickMs(MaxMsOffset)
  \/ RepliesRead /\ \E c \in LifecycleConns : OnOpen(c)
  \/ RepliesRead /\ \E c \in LifecycleConns : OnClose(c)
  \/ RepliesRead /\ \E c \in LifecycleConns, id \in OneAtATime :
                      SendStartTransaction(c, id, ConnectorIds, MaxSessions)
  \/ RepliesRead /\ \E c \in LifecycleConns, id \in OneAtATime :
                      SendStopTransaction(c, id)
  \/ RepliesRead /\ \E c \in LifecycleConns, id \in OneAtATime :
                      SendMeterValues(c, id, MaxSessions)
  \/ \E c \in LifecycleConns : StationRead(c)

Spec == InitNoBridge /\ [][Next]_vars

\* Sweeps: one station that talks during the first TalkPeriods periods and is
\* silent afterwards, while the two timers run for MaxSweepPeriods periods.
SweepConns == {1}
Talking == PeriodsElapsed < TalkPeriods

NextSweep ==
  \/ RepliesRead /\ TickToTimer(MaxSweepPeriods)
  \/ RepliesRead /\ HeartbeatSweep
  \/ RepliesRead /\ GhostSweep
  \/ RepliesRead /\ \E c \in SweepConns : OnOpen(c)
  \/ RepliesRead /\ \E c \in SweepConns : OnClose(c)
  \/ RepliesRead /\ Talking /\ \E c \in SweepConns, id \in OneAtATime :
                      SendHeartbeat(c, id)
  \/ RepliesRead /\ Talking /\ \E c \in SweepConns, id \in OneAtATime :
                      SendStartTransaction(c, id, ConnectorIds, MaxSessions)
  \/ RepliesRead /\ Talking /\ \E c \in SweepConns, id \in OneAtATime :
                      SendStopTransaction(c, id)
  \/ RepliesRead /\ Talking /\ \E c \in SweepConns, id \in OneAtATime :
                      SendMeterValues(c, id, MaxSessions)
  \/ \E c \in SweepConns : StationRead(c)

SpecSweep == InitNoBridge /\ [][NextSweep]_vars

\* Wire: one station that may send a second CALL while the first is
\* unanswered, every action, with and without a bridge, in one millisecond.
WireConns == {1}

NextWire ==
  \/ \E c \in WireConns : OnOpen(c)
  \/ \E c \in WireConns : OnClose(c)
  \/ \E c \in WireConns, id \in Pipelined : SendBootNotification(c, id)
  \/ \E c \in WireConns, id \in Pipelined : SendHeartbeat(c, id)
  \/ \E c \in WireConns, id \in Pipelined : SendStatusNotification(c, id)
  \/ \E c \in WireConns, id \in Pipelined :
       SendStartTransaction(c, id, ConnectorIds, MaxSessions)
  \/ \E c \in WireConns, id \in Pipelined : SendStopTransaction(c, id)
  \/ \E c \in WireConns, id \in Pipelined : SendMeterValues(c, id, MaxSessions)
  \/ \E c \in WireConns, id \in Pipelined : SendUnknownAction(c, id)
  \/ \E c \in WireConns, i \in 1..Cardinality(Pipelined) : ResumeHandler(c, i)
  \/ \E c \in WireConns : StationRead(c)
  \/ \E c \in WireConns : StationGiveUp(c)

SpecWire == Init /\ [][NextWire]_vars

\* Ring: one station opens one transaction per millisecond, MaxRing in all,
\* and its connection may close at any point.
RingConns == {1}
MsElapsed == now - StartTime + 1

NextRing ==
  \/ RepliesRead /\ Len(activeSessions) = MsElapsed /\ TickMs(MaxRing)
  \/ RepliesRead /\ \E c \in RingConns : OnOpen(c)
  \/ RepliesRead /\ \E c \in RingConns : OnClose(c)
  \/ RepliesRead /\ Len(activeSessions) < MsElapsed
       /\ \E c \in RingConns, id \in OneAtATime :
            SendStartTransaction(c, id, {1}, MaxRing)
  \/ \E c \in RingConns : StationRead(c)

SpecRing == InitNoBridge /\ [][NextRing]_vars

\* Meter: two stations within one millisecond, with StopTransaction for
\* ids that are active, finalized or were never handed out, and MeterValues
\* with and without a transactionId and with an absent, empty or non-empty
\* meterValue.
MeterConns == {1, 3}
NeverIssued == TxKey(0)
StopIds == KnownTxIds \cup {NeverIssued}
StopValues == {0, 3600}
EnergySample(wh) ==
  [measurand |-> "Energy.Active.Import.Register", value |-> <<"num", wh>>]
MeterReadings ==
  {MeterValue(<<PowerSample(800)>>),
   MeterValue(<<EnergySample(5000), PowerSample(0)>>),
   <<>>}
MeterPayloads ==
  {[connectorId |-> k] : k \in ConnectorIds}
    \cup {[connectorId |-> k, meterValue |-> r] :
            k \in ConnectorIds, r \in MeterReadings}
    \cup {[connectorId |-> k, transactionId |-> tx, meterValue |-> r] :
            k \in ConnectorIds, tx \in MapKeys(activeSessions),
            r \in MeterReadings}

SendStopTransactionOf(c, id, txs, stops) ==
  \E tx \in txs, m \in stops :
    OnMessage(c, Call(id, "StopTransaction",
                      [transactionId |-> tx, meterStop |-> m]))

SendMeterValuesOf(c, id, payloads, limit) ==
  \E payload \in payloads :
    /\ (/\ SessionFoundIndex(activeSessions, payload.connectorId,
                             TransactionIdString(payload)) = 0
        /\ ObjHas(payload, "meterValue"))
         => SessionsHeld < limit
    /\ OnMessage(c, Call(id, "MeterValues", payload))

NextMeter ==
  \/ RepliesRead /\ \E c \in MeterConns : OnOpen(c)
  \/ RepliesRead /\ \E c \in MeterConns : OnClose(c)
  \/ RepliesRead /\ \E c \in MeterConns, id \in OneAtATime :
                      SendStartTransaction(c, id, ConnectorIds, MaxSessions)
  \/ RepliesRead /\ \E c \in MeterConns, id \in OneAtATime :
                      SendStopTransactionOf(c, id, StopIds, StopValues)
  \/ RepliesRead /\ \E c \in MeterConns, id \in OneAtATime :
                      SendMeterValuesOf(c, id, MeterPayloads, MaxSessions)
  \/ \E c \in MeterConns : StationRead(c)

SpecMeter == InitNoBridge /\ [][NextMeter]_vars

\* ---------------------------------------------------------- POST /command
\* Date.now().toString()
MessageId(ms) == ToString(ms)

\* The /command endpoint: 404 when the station has no record or its socket
\* is not open, else the CALL is written to the record's socket.
PostCommand(stationId, action, payload) ==
  IF \/ ~ObjHas(connectedDevices, stationId)
     \/ sockets[connectedDevices[stationId].socket] # "OPEN"
  THEN /\ commandResponse' = [status |-> 404, success |-> FALSE]
       /\ UNCHANGED <<timerVars, bridgeUrl, activityLog, sockets, storeVars, wireVars>>
  ELSE /\ outbox' = [outbox EXCEPT ![connectedDevices[stationId].socket] =
                       Append(@, Call(MessageId(now), action, payload))]
       /\ commandResponse' =
            [status |-> 200, success |-> TRUE, messageId |-> MessageId(now)]
       /\ UNCHANGED <<timerVars, bridgeUrl, activityLog, sockets, storeVars, pending,
                      unacked>>

\* Late: one station that connects, stays silent until the heartbeat sweep
\* has run at the end of MaxSweepPeriods periods, and talks after that, while
\* an operator posts commands.
LateConns == {1}
Late == PeriodsElapsed >= MaxSweepPeriods
Commands == {"RemoteStopTransaction"}

NextLate ==
  \/ RepliesRead /\ TickToTimer(MaxSweepPeriods)
  \/ RepliesRead /\ HeartbeatSweep
  \/ RepliesRead /\ GhostSweep
  \/ RepliesRead /\ \E c \in LateConns : OnOpen(c)
  \/ RepliesRead /\ \E c \in LateConns : OnClose(c)
  \/ RepliesRead /\ Late /\ \E c \in LateConns, id \in OneAtATime :
                      SendBootNotification(c, id)
  \/ RepliesRead /\ Late /\ \E c \in LateConns, id \in OneAtATime :
                      SendHeartbeat(c, id)
  \/ RepliesRead /\ Late /\ \E c \in LateConns, id \in OneAtATime :
                      SendStartTransaction(c, id, ConnectorIds, MaxSessions)
  \/ RepliesRead /\ Late /\ \E c \in LateConns, id \in OneAtATime :
                      SendMeterValues(c, id, MaxSessions)
  \/ RepliesRead /\ Late /\ \E s \in Stations, a \in Commands :
                      PostCommand(s, a, <<>>)
  \/ \E c \in LateConns : StationRead(c)

SpecLate == InitNoBridge /\ [][NextLate]_vars

\* Link: one station on two sockets (it connects again while its earlier
\* connection is open, going down or closed), with and without a bridge,
\* data that is no OCPP frame, and handlers that wait while the connection
\* goes down; in one millisecond.
LinkConns == {1, 2}
NotAFrame == [data |-> "not json"]

SendNotAFrame(c) == OnMessage(c, NotAFrame)

NextLink ==
  \/ \E c \in LinkConns : OnOpen(c)
  \/ \E c \in LinkConns : BeginClose(c)
  \/ \E c \in LinkConns : OnClose(c)
  \/ \E c \in LinkConns, id \in OneAtATime : SendBootNotification(c, id)
  \/ \E c \in LinkConns, id \in OneAtATime : SendHeartbeat(c, id)
  \/ \E c \in LinkConns, id \in OneAtATime :
       SendStartTransaction(c, id, ConnectorIds, MaxSessions)
  \/ \E c \in LinkConns, id \in OneAtATime : SendStopTransaction(c, id)
  \/ \E c \in LinkConns, id \in OneAtATime : SendUnknownAction(c, id)
  \/ \E c \in LinkConns : SendNotAFrame(c)
  \/ \E c \in LinkConns, i \in 1..Cardinality(OneAtATime) : ResumeHandler(c, i)
  \/ \E c \in LinkConns : StationRead(c)

SpecLink == Init /\ [][NextLink]_vars

\* Port: one station whose StartTransaction and MeterValues name connector
\* 0, connector 1 or no connector at all, over two milliseconds.
PortConns == {1}
PortPayloads == {[connectorId |-> 0], [connectorId |-> 1], [idTag |-> "tag"]}
PortReading == MeterValue(<<PowerSample(800)>>)

SendStartTransactionWith(c, id, payloads, limit) ==
  /\ SessionsHeld < limit
  /\ \E payload \in payloads : OnMessage(c, Call(id, "StartTransaction", payload))

SendMeterValuesWith(c, id, payloads, reading, limit) ==
  \E p \in payloads :
    /\ SessionFoundIndex(activeSessions, NumberProp(p, "connectorId"), NoTxId) = 0
         => SessionsHeld < limit
    /\ OnMessage(c, Call(id, "MeterValues", ObjSet(p, "meterValue", reading)))

NextPort ==
  \/ RepliesRead /\ TickMs(MaxMsOffset)
  \/ RepliesRead /\ \E c \in PortConns : OnOpen(c)
  \/ RepliesRead /\ \E c \in PortConns : OnClose(c)
  \/ RepliesRead /\ \E c \in PortConns, id \in OneAtATime :
                      SendStartTransactionWith(c, id, PortPayloads, MaxSessions)
  \/ RepliesRead /\ \E c \in PortConns, id \in OneAtATime :
                      SendMeterValuesWith(c, id, PortPayloads, PortReading,
                                          MaxSessions)
  \/ RepliesRead /\ \E c \in PortConns, id \in OneAtATime :
                      SendStopTransaction(c, id)
  \/ \E c \in PortConns : StationRead(c)

SpecPort == InitNoBridge /\ [][NextPort]_vars

\* Parse: one station with a transaction on connector 1 that sends
\* MeterValues whose meterValue is one element with up to MaxSamples sampled
\* values, or those spread over two elements around one that has no
\* sampledValue; the samples are numeric, unreadable, absent, of another
\* phase or of an unknown measurand.
ParseConns == {1}
Sample(measurand, value) == [measurand |-> measurand, value |-> value]
Phased(sample, phase) == ObjSet(sample, "phase", phase)
SampleKinds ==
  <<PowerSample(800),
    PowerSample(1500),
    Sample("Power.Active.Import", <<"text">>),
    Sample("Power.Active.Import", <<"lead", 7>>),
    [measurand |-> "Power.Active.Import"],
    EnergySample(5000),
    Phased(Sample("Voltage", <<"num", 230>>), "L1-N"),
    Phased(Sample("Voltage", <<"num", 110>>), "L2-N"),
    Phased(Sample("Current.Import", <<"num", 6>>), "L1-N"),
    Sample("Current.Import", <<"num", 9>>),
    Sample("Temperature", <<"num", 40>>),
    Sample("SoC", <<"num", 55>>)>>
SampleSeqs ==
  UNION {[1..n -> DOMAIN SampleKinds] : n \in 0..MaxSamples}
SamplesOf(picks) == [i \in DOMAIN picks |-> SampleKinds[picks[i]]]
MeterInputs ==
  {MeterValue(SamplesOf(picks)) : picks \in SampleSeqs}
    \cup {MeterValue(SubSeq(SamplesOf(picks), 1, 1))
            \o <<[timestamp |-> "t"]>>
            \o MeterValue(SubSeq(SamplesOf(picks), 2, Len(picks))) :
          picks \in {q \in SampleSeqs : Len(q) >= 2}}

\* A reading whose only sample has a value and no measurand.
UnlabelledReading == MeterValue(<<[value |-> <<"num", 5000>>]>>)

NextParse ==
  \/ RepliesRead /\ \E c \in ParseConns : OnOpen(c)
  \/ RepliesRead /\ \E c \in ParseConns : OnClose(c)
  \/ RepliesRead /\ \E c \in ParseConns, id \in OneAtATime :
                      SendStartTransaction(c, id, {1}, MaxSessions)
  \/ RepliesRead /\ \E c \in ParseConns, id \in OneAtATime :
       \E reading \in MeterInputs :
         SendMeterValuesWith(c, id, {[connectorId |-> 1]}, reading, MaxSessions)
  \/ RepliesRead /\ \E c \in ParseConns, id \in OneAtATime :
       SendMeterValuesWith(c, id, {[connectorId |-> 1]}, UnlabelledReading,
                           MaxSessions)
  \/ \E c \in ParseConns : StationRead(c)

SpecParse == InitNoBridge /\ [][NextParse]_vars

\* Stream: one station, with and without a bridge, that opens a transaction
\* on connector 1 and sends MeterValues at 0 W with the transaction id it
\* was given, during the first TalkPeriods periods and again after
\* MaxSweepPeriods periods, when a sweep, a StopTransaction or a close has
\* finalized that transaction, while both timers run.
StreamConns == {1}
StreamPayloads ==
  {[connectorId |-> 1, transactionId |-> tx,
    meterValue |-> MeterValue(<<PowerSample(0)>>)] :
     tx \in {k \in KnownTxIds : ~k.auto}}
Streaming == RepliesRead /\ (Talking \/ Late)

NextStream ==
  \/ RepliesRead /\ TickToTimer(MaxSweepPeriods)
  \/ RepliesRead /\ HeartbeatSweep
  \/ RepliesRead /\ GhostSweep
  \/ RepliesRead /\ \E c \in StreamConns : OnOpen(c)
  \/ RepliesRead /\ \E c \in StreamConns : OnClose(c)
  \/ Streaming /\ \E c \in StreamConns, id \in OneAtATime :
                    SendStartTransaction(c, id, {1}, 1)
  \/ Streaming /\ \E c \in StreamConns, id \in OneAtATime :
                    SendMeterValuesOf(c, id, StreamPayloads, MaxSessions)
  \/ Streaming /\ \E c \in StreamConns, id \in OneAtATime :
                    SendStopTransaction(c, id)
  \/ \E c \in StreamConns, i \in 1..Cardinality(OneAtATime) :
       ResumeHandler(c, i)
  \/ \E c \in StreamConns : StationRead(c)

SpecStream == Init /\ [][NextStream]_vars

\* ------------------------------------------------------------ activity log
\* The handlers only write activityLog (the HTTP pages read it), so the
\* specifications above leave their addLog calls out; the log has its own.
\* addLog with push() in place of unshift(): the new entry goes to the end.
addLogPushes(log, message, ms) ==
  LET grown == Append(log, [timestamp |-> ToISOString(ms), message |-> message])
  IN IF Len(grown) > LogCap THEN SubSeq(grown, 1, Len(grown) - 1) ELSE grown

\* addLog(message)
addLog(log, message, ms) ==
  LET grown == Unshift(log, [timestamp |-> ToISOString(ms), message |-> message])
  IN IF Len(grown) > LogCap THEN SubSeq(grown, 1, Len(grown) - 1) ELSE grown

\* A handler calls addLog(message).
AddLog(message) ==
  /\ activityLog' = addLog(activityLog, message, now)
  /\ UNCHANGED <<timerVars, bridgeUrl, commandResponse, sockets, storeVars,
                 wireVars>>

\* Log: a station that connects and disconnects in turn, one event per
\* millisecond, MaxLogged events in all.
LogMessages == {"Connected: CP1", "Disconnected: CP1 - Device OFFLINE"}
LoggedNow ==
  activityLog # <<>> /\ Head(activityLog).timestamp = ToISOString(now)

NextLog ==
  \/ LoggedNow /\ TickMs(MaxLogged - 1)
  \/ ~LoggedNow /\ \E message \in LogMessages :
       /\ activityLog # <<>> => Head(activityLog).message # message
       /\ AddLog(message)

SpecLog == InitNoBridge /\ [][NextLog]_vars

\* -------------------------------------------------------------- properties
ActiveKeys == MapKeys(activeSessions)
CompletedIds ==
  {completedSessions[i].transaction_id : i \in DOMAIN completedSessions}
ActiveOf(act, stationId) == SelectSeq(act, LAMBDA e : e[2].station_id = stationId)
NotOf(act, stationId) == SelectSeq(act, LAMBDA e : e[2].station_id # stationId)
Last(q) == q[Len(q)]
\* A frame was written to socket c in this step.
Sent(c) == Len(outbox'[c]) = Len(outbox[c]) + 1

\* C1: finalization is exactly-once: a transaction id has at most one
\* completed-session entry, and an id that has one is not in the active map.
C1_ExactlyOnce ==
  /\ \A i, j \in DOMAIN completedSessions :
       completedSessions[i].transaction_id = completedSessions[j].transaction_id
         => i = j
  /\ \A i \in DOMAIN completedSessions :
       completedSessions[i].transaction_id \notin ActiveKeys

\* C2: at most one active transaction per (station id, connector id).
C2_OnePerConnector ==
  \A i, j \in DOMAIN activeSessions :
    /\ activeSessions[i][2].station_id = activeSessions[j][2].station_id
    /\ activeSessions[i][2].connector_id = activeSessions[j][2].connector_id
    => i = j

\* C3: a transaction id is handed out once: the transactionId of a
\* StartTransaction reply, and the key auto-recovery creates a session
\* under, is the id of no session created before.
C3_FreshId ==
  /\ \A c \in Conns :
       (Sent(c) /\ ObjHas(Last(outbox'[c]).payload, "transactionId"))
         => TxKey(Last(outbox'[c]).payload.transactionId) \notin KnownTxIds
  /\ \A k \in MapKeys(activeSessions') :
       (k.auto /\ MapHas(activeSessions, k))
         => /\ MapGet(activeSessions', k).station_id
                 = MapGet(activeSessions, k).station_id
            /\ MapGet(activeSessions', k).connector_id
                 = MapGet(activeSessions, k).connector_id
  /\ \A k \in MapKeys(activeSessions') \ ActiveKeys :
       k.auto => k \notin CompletedIds

C3_UniqueTxIds == [][C3_FreshId]_vars

\* C4: the completed-session list never holds more than 1000 entries.
C4_CompletedCapped == Len(completedSessions) <= 1000

\* C5: every CALL gets exactly one CALLRESULT with its MessageId: a CALL the
\* station still waits for is held by a suspended handler or its reply is on
\* the way, never both and never twice.
C5_OneReplyPerCall ==
  \A c \in Conns : \A i \in DOMAIN unacked[c] :
    Cardinality({j \in DOMAIN pending[c] : pending[c][j].id = unacked[c][i]})
      + Cardinality({j \in DOMAIN outbox[c] :
                       /\ outbox[c][j].type = CALLRESULT
                       /\ outbox[c][j].id = unacked[c][i]}) = 1

\* C6: CALLRESULT frames are sent in the arrival order of their CALLs: when
\* one is sent, no handler of an earlier CALL on that socket is suspended.
C6_RepliesInArrivalOrder ==
  [][\A c \in Conns :
       Sent(c) => \/ pending[c] = <<>>
                  \/ pending[c][1].id = Last(outbox'[c]).id]_vars

\* C7: the state transitions of a station's CALLs are applied in arrival
\* order: each is applied when its CALL arrives, and a handler that resumes
\* after its bridge call applies none.
C7_TransitionsAtArrival ==
  [][(\E c \in Conns : Len(pending'[c]) < Len(pending[c]))
       => UNCHANGED storeVars]_vars

\* The handler of a Heartbeat is suspended on the bridge while the transition
\* of the StartTransaction that arrived after it has been applied.
C7_Witness ==
  \E c \in Conns :
    /\ Len(pending[c]) = 2
    /\ ObjHas(pending[c][1].response, "currentTime")
    /\ ObjHas(pending[c][2].response, "transactionId")
    /\ TxKey(pending[c][2].response.transactionId) \in ActiveKeys

\* C8: when a station's socket closes its record is kept with status offline,
\* every active transaction of that station is finalized in that step, and
\* the transactions of other stations are left as they were.
C8_CloseFinalizes ==
  [][\A c \in Conns :
       (sockets[c] = "OPEN" /\ sockets'[c] = "CLOSED") =>
         LET s == ConnStation(c)
             mine == ActiveOf(activeSessions, s)
         IN /\ ObjHas(connectedDevices', s)
            /\ connectedDevices' =
                 [connectedDevices EXCEPT ![s].status = "offline"]
            /\ ActiveOf(activeSessions', s) = <<>>
            /\ activeSessions' = NotOf(activeSessions, s)
            /\ Len(completedSessions') = Len(completedSessions) + Len(mine)
            /\ SubSeq(completedSessions', Len(mine) + 1, Len(completedSessions'))
                 = completedSessions
            /\ \A i \in DOMAIN mine :
                 \E j \in 1..Len(mine) :
                   /\ completedSessions'[j].transaction_id = mine[i][1]
                   /\ completedSessions'[j].station_id = s
                   /\ completedSessions'[j].status = "completed"
                   /\ completedSessions'[j].end_time = ToISOString(now)]_vars

\* CP1's socket has closed: CP1 is offline with its record kept, its
\* transaction is in the completed list and CP2's transaction is still active.
C8_Witness ==
  /\ sockets[1] = "CLOSED"
  /\ ObjHas(connectedDevices, "CP1")
  /\ connectedDevices["CP1"].status = "offline"
  /\ \E i \in DOMAIN completedSessions :
       completedSessions[i].station_id = "CP1"
  /\ ActiveOf(activeSessions, "CP1") = <<>>
  /\ ActiveOf(activeSessions, "CP2") # <<>>

\* C9: a heartbeat sweep marks every online station whose last heartbeat is
\* more than 60 s old offline and finalizes all its active transactions, and
\* leaves online every online station whose last heartbeat is 60 s old or
\* newer.
C9_HeartbeatSweep ==
  [][hbDue' # hbDue =>
       \A s \in DOMAIN connectedDevices :
         connectedDevices[s].status = "online" =>
           /\ MapHas(deviceLastHeartbeat, s)
           /\ IF now - MapGet(deviceLastHeartbeat, s) > 60 * 1000
              THEN /\ connectedDevices'[s].status = "offline"
                   /\ ActiveOf(activeSessions', s) = <<>>
                   /\ \A i \in DOMAIN activeSessions :
                        activeSessions[i][2].station_id = s =>
                          \E j \in DOMAIN completedSessions' :
                            /\ completedSessions'[j].transaction_id
                                 = activeSessions[i][1]
                            /\ completedSessions'[j].end_time = ToISOString(now)
              ELSE /\ connectedDevices'[s].status = "online"
                   /\ ActiveOf(activeSessions', s)
                        = ActiveOf(activeSessions, s)]_vars

\* The station's socket is still open, yet the station is offline and a
\* transaction of it was finalized more than 60 s after the start: the
\* heartbeat sweep did both.
C9_Witness ==
  /\ sockets[1] = "OPEN"
  /\ ObjHas(connectedDevices, "CP1")
  /\ connectedDevices["CP1"].status = "offline"
  /\ ActiveOf(activeSessions, "CP1") = <<>>
  /\ \E i \in DOMAIN completedSessions :
       /\ completedSessions[i].station_id = "CP1"
       /\ DateParse(completedSessions[i].end_time) > 60 * 1000

\* C10: a ghost sweep records the time it first sees an active transaction at
\* 0 W, and the first sweep that runs more than 30 s after that time while
\* the power is still 0 finalizes the transaction.
C10_GhostSweep ==
  [][ghostDue' # ghostDue =>
       \A i \in DOMAIN activeSessions :
         LET txId == activeSessions[i][1]
             session == activeSessions[i][2]
             portKey == PortKey(session.station_id, session.connector_id)
         IN session.current_power_w = 0 =>
              IF ~ObjHas(portLastPowerCheck, portKey)
              THEN /\ ObjHas(portLastPowerCheck', portKey)
                   /\ portLastPowerCheck'[portKey] = now
                   /\ txId \in MapKeys(activeSessions')
              ELSE IF now - portLastPowerCheck[portKey] > 30 * 1000
                   THEN /\ txId \notin MapKeys(activeSessions')
                        /\ \E j \in DOMAIN completedSessions' :
                             completedSessions'[j].transaction_id = txId
                   ELSE /\ txId \in MapKeys(activeSessions')
                        /\ ObjHas(portLastPowerCheck', portKey)
                        /\ portLastPowerCheck'[portKey]
                             = portLastPowerCheck[portKey]]_vars

\* C11: a non-zero power sample applied to a transaction clears the
\* zero-observation marker of its port, so that the ghost sweep counts the
\* 30 s from the next time it sees the transaction at 0 W.
C11_NonZeroClearsMarker ==
  [][\A i \in DOMAIN activeSessions' :
       LET txId == activeSessions'[i][1]
           session == activeSessions'[i][2]
       IN (/\ session.current_power_w # 0
           /\ \/ ~MapHas(activeSessions, txId)
              \/ MapGet(activeSessions, txId).current_power_w = 0)
            => ~ObjHas(portLastPowerCheck',
                       PortKey(session.station_id, session.connector_id))]_vars

\* The step is the handling of a StopTransaction CALL for transaction tx
\* with meterStop m on socket c.
StopHandled(c, tx, m) ==
  \E id \in Pipelined :
    OnMessage(c, Call(id, "StopTransaction",
                      [transactionId |-> tx, meterStop |-> m]))

\* C12: StopTransaction for a transaction id that is not in the active map is
\* answered with idTagInfo.status Accepted and changes nothing in the station
\* registry, the active map or the completed list.
C12_UnknownStopAccepted ==
  [][\A c \in Conns, tx \in StopIds, m \in StopValues :
       (~MapHas(activeSessions, tx) /\ StopHandled(c, tx, m))
         => /\ Sent(c)
            /\ Last(outbox'[c]).type = CALLRESULT
            /\ Last(outbox'[c]).payload = [idTagInfo |-> [status |-> "Accepted"]]
            /\ UNCHANGED <<connectedDevices, activeSessions,
                           completedSessions>>]_vars

\* CP1's transaction was finalized when its socket closed; CP2 has sent a
\* StopTransaction for an id that is not active and has its reply; CP2's own
\* transaction is still active and the completed list still has one entry.
C12_Witness ==
  /\ outbox[3] = <<CallResult("m1", [idTagInfo |-> Accepted])>>
  /\ Len(completedSessions) = 1
  /\ completedSessions[1].station_id = "CP1"
  /\ Len(activeSessions) = 1
  /\ activeSessions[1][2].station_id = "CP2"
  /\ sockets[1] = "CLOSED"

\* C13: StopTransaction for an active transaction finalizes it with final
\* energy meterStop / 1000 kWh, whatever the meterStop: the head of the
\* completed list is that transaction with that energy.
C13_StopSetsFinalEnergy ==
  [][\A c \in Conns, tx \in StopIds, m \in StopValues :
       (MapHas(activeSessions, tx) /\ StopHandled(c, tx, m))
         => /\ ~MapHas(activeSessions', tx)
            /\ Len(completedSessions') = Len(completedSessions) + 1
            /\ completedSessions'[1].transaction_id = tx
            /\ completedSessions'[1].energy_kwh
                 \in {Kwh(m * 100), ToFixed5(m * 100)}]_vars

\* The step is the handling of a MeterValues CALL with this payload on
\* socket c.
MeterHandled(c, payload) ==
  \E id \in Pipelined : OnMessage(c, Call(id, "MeterValues", payload))

\* The sessions under every key but txId are as they were.
OthersUntouched(txId) ==
  \A k \in MapKeys(activeSessions) \ {txId} :
    /\ MapHas(activeSessions', k)
    /\ MapGet(activeSessions', k) = MapGet(activeSessions, k)

\* C14: MeterValues with a transactionId that is a key of the active map
\* applies its sample to exactly that transaction, whatever the connectorId
\* of the frame and whichever transactions were inserted before it.
C14_TransactionIdFirst ==
  [][\A c \in Conns, payload \in MeterPayloads :
       (/\ ObjHas(payload, "transactionId")
        /\ ObjHas(payload, "meterValue")
        /\ MapHas(activeSessions, payload.transactionId)
        /\ MeterHandled(c, payload))
         => /\ MapHas(activeSessions', payload.transactionId)
            /\ MapGet(activeSessions', payload.transactionId).current_power_w
                 = parseMeterValues(payload).power
            /\ MapGet(activeSessions', payload.transactionId).energy_kwh
                 = Kwh(parseMeterValues(payload).energy)
            /\ OthersUntouched(payload.transactionId)]_vars

\* C15: a MeterValues frame received on station S's connection without a
\* known transactionId modifies no active transaction of another station,
\* whatever that transaction's connector id.
C15_ConnectorLookupByStation ==
  [][\A c \in Conns, payload \in MeterPayloads :
       (/\ ~MapHas(activeSessions, TransactionIdString(payload))
        /\ MeterHandled(c, payload))
         => \A k \in MapKeys(activeSessions) :
              MapGet(activeSessions, k).station_id # ConnStation(c)
                => /\ MapHas(activeSessions', k)
                   /\ MapGet(activeSessions', k) = MapGet(activeSessions, k)]_vars

\* No active transaction is named by the payload's transactionId or is on
\* the payload's connector of the station of socket c.
NoSessionFor(c, payload) ==
  /\ ~MapHas(activeSessions, TransactionIdString(payload))
  /\ \A k \in MapKeys(activeSessions) :
       \/ MapGet(activeSessions, k).station_id # ConnStation(c)
       \/ MapGet(activeSessions, k).connector_id # payload.connectorId

\* The step added one transaction with an auto- id for the station of socket
\* c and the payload's connector, started now, holding the payload's sample.
AutoRecovered(c, payload) ==
  /\ Len(activeSessions') = Len(activeSessions) + 1
  /\ OthersUntouched(NoTxId)
  /\ \E k \in MapKeys(activeSessions') \ MapKeys(activeSessions) :
       /\ k.auto
       /\ MapGet(activeSessions', k).station_id = ConnStation(c)
       /\ MapGet(activeSessions', k).connector_id = payload.connectorId
       /\ MapGet(activeSessions', k).start_time = ToISOString(now)
       /\ MapGet(activeSessions', k).current_power_w
            = parseMeterValues(payload).power
       /\ MapGet(activeSessions', k).energy_kwh
            = Kwh(parseMeterValues(payload).energy)

\* C16: a MeterValues frame with a non-empty meterValue for which no session
\* is found creates exactly one new active transaction with an auto- id, the
\* frame's station and connector and start time now, applies the sample to
\* it and is answered with the empty result.
C16_AutoRecovery ==
  [][\A c \in Conns, payload \in MeterPayloads :
       (/\ ObjHas(payload, "meterValue")
        /\ payload.meterValue # <<>>
        /\ NoSessionFor(c, payload)
        /\ MeterHandled(c, payload))
         => /\ AutoRecovered(c, payload)
            /\ Sent(c)
            /\ Last(outbox'[c]).type = CALLRESULT
            /\ Last(outbox'[c]).payload = <<>>]_vars

\* C17: a MeterValues frame for which no session is found and whose
\* meterValue is absent or an empty sequence creates no transaction and
\* leaves the active map unchanged.
C17_NoRecoveryWithoutSamples ==
  [][\A c \in Conns, payload \in MeterPayloads :
       (/\ ObjHas(payload, "meterValue") => payload.meterValue = <<>>
        /\ NoSessionFor(c, payload)
        /\ MeterHandled(c, payload))
         => UNCHANGED activeSessions]_vars

\* The record of station s exists with status online (in the next state).
OnlineAfter(s) ==
  /\ ObjHas(connectedDevices', s)
  /\ connectedDevices'[s].status = "online"

\* C18: whenever a transaction is inserted into the active map, a station
\* record with its station id exists and has status online at that moment.
C18_InsertedWhileOnline ==
  [][\A k \in MapKeys(activeSessions') \ MapKeys(activeSessions) :
       OnlineAfter(MapGet(activeSessions', k).station_id)]_vars

\* C19: POST /command writes the CALL frame to the station's socket and
\* answers success only when the station has a record with status online
\* and a writable socket; otherwise it answers 404 with success false and
\* writes no frame to any connection.
C19_NoSendWhenOffline ==
  [][\A s \in Stations, a \in Commands :
       PostCommand(s, a, <<>>) =>
         IF /\ ObjHas(connectedDevices, s)
            /\ connectedDevices[s].status = "online"
            /\ sockets[connectedDevices[s].socket] = "OPEN"
         THEN /\ commandResponse'.status = 200
              /\ commandResponse'.success
              /\ Sent(connectedDevices[s].socket)
              /\ Last(outbox'[connectedDevices[s].socket])
                   = Call(commandResponse'.messageId, a, <<>>)
         ELSE /\ commandResponse' = [status |-> 404, success |-> FALSE]
              /\ UNCHANGED outbox]_vars

\* MeterValues payloads with one power sample.
PowerPayloads ==
  {[connectorId |-> k, meterValue |-> MeterValue(<<PowerSample(p)>>)] :
     k \in ConnectorIds, p \in Powers}

\* C20: after socket open, BootNotification, Heartbeat or MeterValues is
\* handled for a station that has a record, the record's status is online.
C20_OnlineOnTraffic ==
  [][\A c \in Conns :
       /\ OnOpen(c) => OnlineAfter(ConnStation(c))
       /\ \A id \in Pipelined :
            ObjHas(connectedDevices, ConnStation(c)) =>
              /\ OnMessage(c, Call(id, "BootNotification", BootPayload))
                   => OnlineAfter(ConnStation(c))
              /\ OnMessage(c, CallWithoutPayload(id, "Heartbeat"))
                   => OnlineAfter(ConnStation(c))
              /\ \A payload \in PowerPayloads :
                   OnMessage(c, Call(id, "MeterValues", payload))
                     => OnlineAfter(ConnStation(c))]_vars

\* C21: a station id has one connection: when a socket opens for a station id
\* whose earlier socket is still open, the registry's record names the new
\* socket and every transaction of the station that was active (they were
\* the earlier connection's) is finalized by that step.
C21_ReconnectReplaces ==
  [][\A c \in LinkConns :
       (/\ OnOpen(c)
        /\ \E prior \in LinkConns \ {c} :
             ConnStation(prior) = ConnStation(c) /\ sockets[prior] = "OPEN")
         => /\ connectedDevices'[ConnStation(c)].socket = c
            /\ ActiveOf(activeSessions', ConnStation(c)) = <<>>
            /\ \A i \in DOMAIN activeSessions :
                 activeSessions[i][2].station_id = ConnStation(c)
                   => activeSessions[i][1] \in
                        {completedSessions'[j].transaction_id :
                           j \in DOMAIN completedSessions'}]_vars

\* C22: a CALL whose action the server does not know is answered, in the
\* same step when no bridge call is awaited, with a CALLRESULT that carries
\* the CALL's MessageId and the payload {}; and no frame the server sends,
\* whatever it received, is a CALLERROR.
C22_UnknownActionEmptyResult ==
  [][/\ \A c \in LinkConns : \A i \in DOMAIN outbox'[c] :
          outbox'[c][i].type # CALLERROR
     /\ \A c \in LinkConns, id \in OneAtATime :
          SendUnknownAction(c, id)
            => /\ Sent(c)
               /\ Last(outbox'[c]) = CallResult(id, <<>>)
               /\ UNCHANGED <<storeVars, pending>>]_vars

\* The reply {} to the unknown action is on its way to the station (no
\* other CALL of this specification is answered with {}).
C22_Witness ==
  \E c \in LinkConns, id \in OneAtATime :
    /\ outbox[c] # <<>>
    /\ Last(outbox[c]) = CallResult(id, <<>>)
    /\ activeSessions # <<>>

\* C23: data that is not JSON, or JSON that is no array, arriving on an open
\* socket ends in the catch block: nothing is sent, no handler is left
\* waiting and the registry, the heartbeat map, the active map, the
\* completed list and the zero-power markers are what they were; the socket
\* stays open, so the state the next CALL meets is the one it would have met
\* without that data.
C23_NotAFrameIgnored ==
  \A c \in LinkConns :
    sockets[c] = "OPEN"
      => LET out == HandleFrame(ConnStation(c), NotAFrame, Store, now, bridgeUrl)
         IN /\ out.st = Store
            /\ ~out.reply
            /\ ~out.awaits

\* Such data leaves no trace, so a state with an open socket is also the
\* state after it arrived there: here the station is online with an active
\* transaction, and a CALL on that socket has been answered.
C23_Witness ==
  \E c \in LinkConns :
    /\ sockets[c] = "OPEN"
    /\ connectedDevices[ConnStation(c)].status = "online"
    /\ connectedDevices[ConnStation(c)].socket = c
    /\ ActiveOf(activeSessions, ConnStation(c)) # <<>>
    /\ completedSessions # <<>>
    /\ outbox[c] # <<>>

\* C24: when the reply of a handler cannot be sent (its socket is no longer
\* open when the handler gets to socket.send), the connection is treated as
\* dead: after that step the station is offline and none of its transactions
\* is active.
C24_SendFailureCleansUp ==
  [][\A c \in LinkConns, i \in 1..Cardinality(OneAtATime) :
       (ResumeHandler(c, i) /\ sockets[c] # "OPEN")
         => /\ connectedDevices'[ConnStation(c)].status = "offline"
            /\ ActiveOf(activeSessions', ConnStation(c)) = <<>>]_vars

\* The stores after the handler of frame ran on socket c, had BRIDGE_URL
\* been set (b) or not.
StoresWithBridge(c, frame, b) ==
  LET out == HandleFrame(ConnStation(c), frame, Store, now, b)
  IN <<out.st.dev, out.st.hb, out.st.act, out.st.comp, out.st.plpc>>

ArrivesAlike(c, frame) ==
  OnMessage(c, frame)
    => \A b \in BOOLEAN : storeVars' = StoresWithBridge(c, frame, b)

\* C25: the registry, the heartbeat map, the active map, the completed list
\* and the zero-power markers a CALL leaves behind are those it would leave
\* with a bridge and without one, and the step in which the bridge call
\* settles (whatever its outcome) changes none of them.
C25_StoresIgnoreBridge ==
  [][\A c \in WireConns :
       /\ \A i \in 1..Cardinality(Pipelined) :
            ResumeHandler(c, i) => UNCHANGED storeVars
       /\ \A id \in Pipelined :
            /\ ArrivesAlike(c, Call(id, "BootNotification", BootPayload))
            /\ ArrivesAlike(c, CallWithoutPayload(id, "BootNotification"))
            /\ ArrivesAlike(c, CallWithoutPayload(id, "Heartbeat"))
            /\ ArrivesAlike(c, Call(id, "StatusNotification",
                                    [status |-> "Charging"]))
            /\ ArrivesAlike(c, Call(id, "DataTransfer", <<>>))
            /\ \A k \in ConnectorIds :
                 ArrivesAlike(c, Call(id, "StartTransaction", [connectorId |-> k]))
            /\ \A tx \in KnownTxIds, m \in MeterStops :
                 ArrivesAlike(c, Call(id, "StopTransaction",
                                     [transactionId |-> tx, meterStop |-> m]))
            /\ \A k \in ConnectorIds, p \in Powers :
                 ArrivesAlike(c, Call(id, "MeterValues",
                                     [connectorId |-> k,
                                      meterValue |-> MeterValue(<<PowerSample(p)>>)]))
    ]_vars

\* With a bridge: a StartTransaction was answered after its bridge call
\* settled, its transaction is active and another one is finalized.
C25_Witness ==
  \E c \in WireConns :
    /\ bridgeUrl
    /\ outbox[c] # <<>>
    /\ ObjHas(Last(outbox[c]).payload, "transactionId")
    /\ activeSessions # <<>>
    /\ completedSessions # <<>>

\* C26: a reply does not wait for the bridge: no handler that has a reply to
\* send is held back by a bridge call that has not settled, so no CALL stays
\* unanswered when the bridge never answers.
C26_RepliesDoNotWait == \A c \in WireConns : pending[c] = <<>>

\* C27: every entry of the completed list ends no earlier than it started,
\* and its duration_minutes is the number of whole minutes between its
\* start_time and its end_time, whether StopTransaction, the close of the
\* connection, the heartbeat sweep or the ghost sweep finalized it.
C27_DurationIsWholeMinutes ==
  \A i \in DOMAIN completedSessions :
    LET e == completedSessions[i]
        elapsed == DateParse(e.end_time) - DateParse(e.start_time)
    IN /\ elapsed >= 0
       /\ e.duration_minutes * MsPerMinute <= elapsed
       /\ elapsed < (e.duration_minutes + 1) * MsPerMinute

\* A transaction finalized more than a minute and less than two after its
\* start, next to one finalized within its first minute.
C27_Witness ==
  \E i, j \in DOMAIN completedSessions :
    /\ completedSessions[i].duration_minutes = 1
    /\ DateParse(completedSessions[i].end_time)
         - DateParse(completedSessions[i].start_time) > MsPerMinute
    /\ completedSessions[j].duration_minutes = 0
    /\ DateParse(completedSessions[j].end_time)
         - DateParse(completedSessions[j].start_time) > MsPerMinute \div 2

\* C28: the connector of an active transaction is one of the station's
\* connectors 1..N: no StartTransaction and no MeterValues, with connectorId
\* 0 or without a connectorId, leaves an active transaction on connector 0
\* or on no connector.
C28_ActiveConnectorInRange ==
  \A i \in DOMAIN activeSessions :
    activeSessions[i][2].connector_id \in ConnectorIds

\* C29: the activity log holds at most 50 entries, newest first: the event
\* just logged is its head, stamped with the current time, the entries
\* behind it are the earlier ones in their order, and when the log was full
\* the entry that is gone is the oldest (the last) one.
C29_LogNewestFirstCapped ==
  [][\A message \in LogMessages :
       AddLog(message)
         => /\ Len(activityLog') = Min(Len(activityLog) + 1, LogCap)
            /\ Head(activityLog') =
                 [timestamp |-> ToISOString(now), message |-> message]
            /\ Tail(activityLog') =
                 SubSeq(activityLog, 1, Len(activityLog') - 1)
            /\ \A i \in 1..(Len(activityLog') - 1) :
                 DateParse(activityLog'[i].timestamp)
                   >= DateParse(activityLog'[i + 1].timestamp)]_vars

\* The log is full and its oldest entry is no longer the first event.
C29_Witness ==
  /\ Len(activityLog) = LogCap
  /\ DateParse(activityLog[LogCap].timestamp) > StartTime
  /\ DateParse(Head(activityLog).timestamp) = StartTime + MaxLogged - 1

\* The sampled values of a meterValue array, in order.
RECURSIVE AllSamples(_, _)
AllSamples(meterValue, i) ==
  IF i > Len(meterValue) THEN <<>>
  ELSE (IF ObjHas(meterValue[i], "sampledValue")
        THEN meterValue[i].sampledValue ELSE <<>>)
         \o AllSamples(meterValue, i + 1)

\* The samples a field of the tuple is read from.
Recognized(sample, field) ==
  CASE field = "power" -> sample.measurand = "Power.Active.Import"
    [] field = "energy" -> sample.measurand = "Energy.Active.Import.Register"
    [] field = "voltage" ->
         sample.measurand = "Voltage" /\ ObjHas(sample, "phase")
           /\ sample.phase = "L1-N"
    [] field = "current" ->
         sample.measurand = "Current.Import" /\ ObjHas(sample, "phase")
           /\ sample.phase = "L1-N"
    [] field = "temperature" -> sample.measurand = "Temperature"

\* The number a sample carries: none (0) when it has no value or a value no
\* number can be read from; Wh become units of 0.00001 kWh.
NumberRead(sample, field) ==
  LET n == IF ObjHas(sample, "value") /\ sample.value[1] # "text"
           THEN sample.value[2] ELSE 0
  IN IF field = "energy" THEN n * 100 ELSE n

LastRecognized(samples, field) ==
  LET hits == {i \in DOMAIN samples : Recognized(samples[i], field)}
  IN IF hits = {} THEN 0
     ELSE NumberRead(samples[CHOOSE i \in hits : \A j \in hits : j <= i], field)

\* The session a MeterValues frame for connector 1 with this reading would
\* be applied to, as the handler leaves it, from the current state.
SessionAfterReading(c, reading) ==
  LET frame == Call("m1", "MeterValues",
                    [connectorId |-> 1, meterValue |-> reading])
      act == HandleFrame(ConnStation(c), frame, Store, now, bridgeUrl).st.act
  IN act[SessionFoundIndex(act, 1, NoTxId)][2]

C31_AbsentMeasurandIsEnergy ==
  [][\A c \in ParseConns, id \in OneAtATime :
       OnMessage(c, Call(id, "MeterValues",
                         [connectorId |-> 1, meterValue |-> UnlabelledReading]))
         => LET found == SessionFoundIndex(activeSessions', 1, NoTxId)
            IN /\ found # 0
               /\ activeSessions'[found][2].energy_kwh =
                    SessionAfterReading(c, MeterValue(<<EnergySample(5000)>>))
                      .energy_kwh
               /\ activeSessions'[found][2].energy_kwh = Kwh(5000 * 100)]_vars

\* C32: a completed session is immutable: a step only adds entries at the
\* head of the completed list, every entry that was in it is still there,
\* behind them, with every field as it was, whatever the step is
\* (MeterValues, StopTransaction, close, a sweep, a handler resuming after
\* its bridge call); and every entry has the status "completed", an end
\* time and a duration.
C32_CompletedImmutable ==
  [][/\ Len(completedSessions') >= Len(completedSessions)
     /\ \A i \in DOMAIN completedSessions :
          completedSessions'[i + Len(completedSessions')
                               - Len(completedSessions)] = completedSessions[i]
     /\ \A j \in DOMAIN completedSessions' :
          /\ completedSessions'[j].status = "completed"
          /\ ObjHas(completedSessions'[j], "end_time")
          /\ ObjHas(completedSessions'[j], "duration_minutes")]_vars

\* An entry has stayed in the completed list while a later transaction was
\* recovered and finalized in front of it, with a bridge.
C32_Witness ==
  /\ bridgeUrl
  /\ Len(completedSessions) = 2
  /\ DateParse(completedSessions[2].end_time)
       < DateParse(completedSessions[1].end_time)
  /\ \A c \in StreamConns : pending[c] = <<>>

\* C33: BootNotification, Heartbeat, StatusNotification and a CALL with an
\* unknown action leave the active map and the completed list as they were,
\* and StatusNotification leaves the station registry as it was too.
C33_OnlyMeterValuesMutates ==
  [][\A c \in WireConns, id \in Pipelined :
       /\ (\/ SendBootNotification(c, id)
           \/ SendHeartbeat(c, id)
           \/ SendStatusNotification(c, id)
           \/ SendUnknownAction(c, id))
            => UNCHANGED <<activeSessions, completedSessions>>
       /\ SendStatusNotification(c, id) => UNCHANGED connectedDevices]_vars

\* A Heartbeat has been taken in (its id awaits the reply) while a
\* transaction is active and another is finalized.
C33_Witness ==
  \E c \in WireConns :
    /\ unacked[c] # <<>>
    /\ outbox[c] # <<>>
    /\ ObjHas(Last(outbox[c]).payload, "currentTime")
    /\ ~ObjHas(Last(outbox[c]).payload, "interval")
    /\ activeSessions # <<>>
    /\ completedSessions # <<>>

\* C34: no session is lost: a transaction in the active map is, after any
\* step, still there as it was inserted (same id, station, connector and
\* start time) or has a completed entry with those; a StartTransaction or an
\* auto-recovery, also in the same millisecond, does not take the place of
\* an active entry.
C34_NoSessionLost ==
  [][\A i \in DOMAIN activeSessions :
       LET txId == activeSessions[i][1]
           session == activeSessions[i][2]
           Same(e) == /\ e.station_id = session.station_id
                      /\ e.connector_id = session.connector_id
                      /\ e.start_time = session.start_time
       IN \/ /\ MapHas(activeSessions', txId)
             /\ Same(MapGet(activeSessions', txId))
          \/ \E j \in DOMAIN completedSessions' :
               /\ completedSessions'[j].transaction_id = txId
               /\ Same(completedSessions'[j])]_vars

\* C35: no session outlives its station's connection: in every state in
\* which a station has no open socket, no active transaction carries that
\* station's id, also after the handlers that were waiting for the bridge
\* when the socket closed have resumed.
C35_NoSessionPastDisconnect ==
  \A s \in {ConnStation(c) : c \in WireConns} :
    (\A c \in WireConns : ConnStation(c) = s => sockets[c] # "OPEN")
      => ActiveOf(activeSessions, s) = <<>>

\* With a bridge: the socket has closed, the close finalized a transaction
\* and no handler is waiting for the bridge any more.
C35_Witness ==
  \E c \in WireConns :
    /\ bridgeUrl
    /\ sockets[c] = "CLOSED"
    /\ pending[c] = <<>>
    /\ completedSessions # <<>>
    /\ deviceLastHeartbeat = <<>>

\* C36: a StopTransaction on a station's connection leaves every active
\* transaction of another station as it was, and clears no zero-power
\* marker but that of the finalized transaction's own station and connector.
C36_StopStaysOnStation ==
  [][\A c \in MeterConns, tx \in StopIds, m \in StopValues :
       StopHandled(c, tx, m)
         => /\ NotOf(activeSessions', ConnStation(c))
                 = NotOf(activeSessions, ConnStation(c))
            /\ \A key \in DOMAIN portLastPowerCheck :
                 key \notin DOMAIN portLastPowerCheck'
                   => /\ MapHas(activeSessions, tx)
                      /\ key = PortKey(MapGet(activeSessions, tx).station_id,
                                       MapGet(activeSessions, tx).connector_id)]_vars

\* C37: the close of a superseded socket leaves its replacement alone: when
\* a socket closes while the registry names another, open socket of the same
\* station, the station stays online, keeps its last-heartbeat entry and
\* keeps its active transactions.
C37_OldCloseSparesReplacement ==
  [][\A c \in LinkConns :
       (/\ OnClose(c)
        /\ ObjHas(connectedDevices, ConnStation(c))
        /\ connectedDevices[ConnStation(c)].socket # c
        /\ sockets[connectedDevices[ConnStation(c)].socket] = "OPEN")
         => /\ connectedDevices'[ConnStation(c)].status
                 = connectedDevices[ConnStation(c)].status
            /\ MapHas(deviceLastHeartbeat', ConnStation(c))
                 = MapHas(deviceLastHeartbeat, ConnStation(c))
            /\ activeSessions' = activeSessions]_vars

\* C38: a station that keeps its socket open and is within the heartbeat
\* interval the server advertises (BootInterval seconds since its last
\* heartbeat) is not marked offline by the heartbeat sweep and keeps its
\* active transactions through it.
C38_AdvertisedIntervalIsSafe ==
  [][HeartbeatSweep
       => \A c \in SweepConns :
            (/\ sockets[c] = "OPEN"
             /\ MapHas(deviceLastHeartbeat, ConnStation(c))
             /\ now - MapGet(deviceLastHeartbeat, ConnStation(c))
                  <= BootInterval * 1000)
              => /\ connectedDevices'[ConnStation(c)].status
                      = connectedDevices[ConnStation(c)].status
                 /\ ActiveOf(activeSessions', ConnStation(c))
                      = ActiveOf(activeSessions, ConnStation(c))]_vars

\* The completed entry i was finalized by a sweep: it ended in a period in
\* which the station sends nothing, on a socket that was opened before that
\* instant and is open still, so neither a StopTransaction nor a close ended it.
EndedBySweep(c, i) ==
  LET entry == completedSessions[i]
      period == (entry.end_time.iso - StartTime) \div GhostSweepPeriod
  IN /\ entry.station_id = ConnStation(c)
     /\ period >= TalkPeriods
     /\ period < MaxSweepPeriods
     /\ sockets[c] = "OPEN"
     /\ ObjHas(connectedDevices, ConnStation(c))
     /\ connectedDevices[ConnStation(c)].connected_at.iso < entry.end_time.iso

\* C39: a transaction finalized by a sweep is not resurrected: a later
\* MeterValues frame of the same station that carries its transactionId and
\* its connector adds no transaction to the active map.
C39_NotResurrected ==
  [][\A c \in StreamConns, payload \in StreamPayloads :
       (/\ MeterHandled(c, payload)
        /\ \E i \in DOMAIN completedSessions :
             /\ EndedBySweep(c, i)
             /\ completedSessions[i].transaction_id = payload.transactionId
             /\ completedSessions[i].connector_id = payload.connectorId)
         => MapKeys(activeSessions') \subseteq MapKeys(activeSessions)]_vars

\* C40: the cumulative energy of an active transaction never decreases: a
\* MeterValues frame, with or without an Energy sample, leaves every
\* transaction that stays active with at least the energy it had.
C40_EnergyNeverDecreases ==
  [][\A c \in MeterConns, payload \in MeterPayloads :
       MeterHandled(c, payload)
         => \A k \in MapKeys(activeSessions) :
              MapHas(activeSessions', k)
                => MapGet(activeSessions', k).energy_kwh.kwh
                     >= MapGet(activeSessions, k).energy_kwh.kwh]_vars

====
